---------------------------- MODULE Spec2Model ----------------------------
(***************************************************************************)
(* Alpha+++ discovery (pm_rust/src/alphappp/full.rs) and the XES exporter   *)
(* (process_mining/src/event_log/export_xes.rs) as state machines.          *)
(*                                                                         *)
(* Conventions.  Activity indices are 1-based here (Rust's are 0-based).    *)
(* A string that the code inspects (an activity name) is a sequence of      *)
(* string tokens, so that starts_with and equality are computed.  An        *)
(* Option<T> is the record [some |-> BOOLEAN, v |-> ...].  An f32 threshold  *)
(* is the rational n / Den and is held as its numerator n.                  *)
(***************************************************************************)
EXTENDS Integers, Sequences, FiniteSets, TLC

\* ------------------------------------------------------------------ bounds
MaxActs == 2
MaxLogSize == 4
Den == 2
HashSeeds == 3
MaxNested == 1
MaxXesTraces == 2

\* ------------------------------------------------------- reserved names
START_EVENT == <<"__START__">>
END_EVENT == <<"__END__">>
SILENT_ACT_PREFIX == <<"__SILENT__">>

\* str::starts_with
starts_with(s, prefix) ==
    /\ Len(s) >= Len(prefix)
    /\ SubSeq(s, 1, Len(prefix)) = prefix

\* ------------------------------------------------------- generic helpers
None == [some |-> FALSE, v |-> <<>>]
Some(x) == [some |-> TRUE, v |-> x]

Range(s) == {s[i] : i \in DOMAIN s}

Max2(a, b) == IF a >= b THEN a ELSE b
Min2(a, b) == IF a <= b THEN a ELSE b

RECURSIVE SetMax(_)
SetMax(S) ==
    IF S = {} THEN 0
    ELSE LET x == CHOOSE y \in S : TRUE IN Max2(x, SetMax(S \ {x}))

RECURSIVE SumOver(_, _)
SumOver(f, S) ==
    IF S = {} THEN 0
    ELSE LET x == CHOOSE y \in S : TRUE IN f[x] + SumOver(f, S \ {x})

\* a set of integers as the ascending vector that represents it
RECURSIVE SortedVec(_)
SortedVec(S) ==
    IF S = {} THEN <<>>
    ELSE LET m == CHOOSE y \in S : \A z \in S : y <= z
         IN <<m>> \o SortedVec(S \ {m})

\* v without its i-th element
RemoveAt(v, i) == SubSeq(v, 1, i - 1) \o SubSeq(v, i + 1, Len(v))

\* lexicographic order of two vectors of integers
RECURSIVE LexLess(_, _)
LexLess(u, v) ==
    IF v = <<>> THEN FALSE
    ELSE IF u = <<>> THEN TRUE
    ELSE IF Head(u) # Head(v) THEN Head(u) < Head(v)
    ELSE LexLess(Tail(u), Tail(v))

\* lexicographic order of two candidates (A, B)
CndLess(c, d) == IF c[1] # d[1] THEN LexLess(c[1], d[1]) ELSE LexLess(c[2], d[2])

\* a set of candidates as the vector sorted lexicographically
RECURSIVE SortedCnds(_)
SortedCnds(S) ==
    IF S = {} THEN <<>>
    ELSE LET m == CHOOSE c \in S : \A d \in S : d = c \/ CndLess(c, d)
         IN <<m>> \o SortedCnds(S \ {m})

\* the k-th permutation of vector v (k read as a Lehmer code)
RECURSIVE Permuted(_, _)
Permuted(k, v) ==
    IF v = <<>> THEN <<>>
    ELSE LET i == (k % Len(v)) + 1
         IN <<v[i]>> \o Permuted(k \div Len(v), RemoveAt(v, i))

\* ceil(n / d) for n >= 0, d > 0
CeilDiv(n, d) == (n + d - 1) \div d

\* sequences over S of length 0..n
SeqsUpTo(S, n) == UNION {[1..k -> S] : k \in 0..n}

\* ------------------------------------------------ EventLogActivityProjection
\* act_to_index.get(name): the 1-based index of name, 0 when absent
IndexOf(activities, name) ==
    IF \E i \in DOMAIN activities : activities[i] = name
    THEN CHOOSE i \in DOMAIN activities : activities[i] = name
    ELSE 0

\* add_start_end_acts_proj: append the reserved activities that are absent,
\* then bracket every trace with start_idx ... end_idx
add_start_end_acts_proj(lp) ==
    LET acts1 == IF IndexOf(lp.activities, START_EVENT) = 0
                 THEN Append(lp.activities, START_EVENT) ELSE lp.activities
        acts2 == IF IndexOf(acts1, END_EVENT) = 0
                 THEN Append(acts1, END_EVENT) ELSE acts1
        s == IndexOf(acts2, START_EVENT)
        e == IndexOf(acts2, END_EVENT)
    IN [activities |-> acts2,
        traces |-> [k \in DOMAIN lp.traces |->
                      [trace |-> <<s>> \o lp.traces[k].trace \o <<e>>,
                       w |-> lp.traces[k].w]]]

\* ------------------------------------------------------ ActivityProjectionDFG
\* the number of positions of t where v directly follows u
DFCount(t, u, v) ==
    Cardinality({i \in 1..(Len(t) - 1) : t[i] = u /\ t[i + 1] = v})

\* ActivityProjectionDFG::from_event_log_projection: edges is the map from the
\* pairs that occur to their weight, counted with trace multiplicity
from_event_log_projection(lp) ==
    LET keys == UNION {{<<lp.traces[k].trace[i], lp.traces[k].trace[i + 1]>> :
                          i \in 1..(Len(lp.traces[k].trace) - 1)} :
                       k \in DOMAIN lp.traces}
        wt(e) == LET f == [k \in DOMAIN lp.traces |->
                             lp.traces[k].w * DFCount(lp.traces[k].trace, e[1], e[2])]
                 IN SumOver(f, DOMAIN lp.traces)
    IN [e \in keys |-> wt(e)]

\* (rel * mean_dfg).ceil() as u64, with rel = rel_n / Den and
\* mean_dfg = dfg_sum / #edges: NaN (no edge) and negatives cast to 0
df_threshold(rel_n, dfg_sum, n_edges) ==
    IF n_edges = 0 \/ rel_n <= 0 THEN 0
    ELSE CeilDiv(rel_n * dfg_sum, Den * n_edges)

\* ------------------------------------------------------------- log repair
\* t with activity x inserted between every adjacent pair of t that is in pairs
RECURSIVE InsertBetween(_, _, _)
InsertBetween(t, pairs, x) ==
    IF Len(t) <= 1 THEN t
    ELSE IF <<t[1], t[2]>> \in pairs
         THEN <<t[1], x>> \o InsertBetween(Tail(t), pairs, x)
         ELSE <<t[1]>> \o InsertBetween(Tail(t), pairs, x)

\* one repair: a new silent activity <silent prefix><unique suffix> is appended
\* and inserted into the traces wherever one of the pairs is observed
RepairOne(lp, pairs, suffix) ==
    LET x == Len(lp.activities) + 1
    IN [activities |-> Append(lp.activities, SILENT_ACT_PREFIX \o <<ToString(suffix)>>),
        traces |-> [k \in DOMAIN lp.traces |->
                      [trace |-> InsertBetween(lp.traces[k].trace, pairs, x),
                       w |-> lp.traces[k].w]]]

\* the detected patterns (a vector of pair sets) repaired one after the other,
\* the unique suffixes taken from uuid on: the repaired projection
RECURSIVE RepairAll(_, _, _)
RepairAll(lp, patterns, uuid) ==
    IF patterns = <<>> THEN lp
    ELSE RepairAll(RepairOne(lp, Head(patterns), uuid), Tail(patterns), uuid + 1)

\* the activities of acts (ascending) for which pat gives a pattern, as the
\* vector of their patterns
RECURSIVE PatternsOf(_, _)
PatternsOf(acts, pat) ==
    IF acts = <<>> THEN <<>>
    ELSE (IF pat[Head(acts)] = {} THEN <<>> ELSE <<pat[Head(acts)]>>)
         \o PatternsOf(Tail(acts), pat)

\* the loop patterns of the log: a directly-follows edge from an activity back
\* to itself whose weight exceeds the threshold
LoopPatterns(lp, df_thresh) ==
    LET dfg == from_event_log_projection(lp)
        pat == [a \in DOMAIN lp.activities |->
                  IF <<a, a>> \in DOMAIN dfg /\ dfg[<<a, a>>] > df_thresh
                  THEN {<<a, a>>} ELSE {}]
    IN PatternsOf(SortedVec(DOMAIN lp.activities), pat)

\* add_artificial_acts_for_loops: (the repaired projection, the names added)
add_artificial_acts_for_loops(lp, df_thresh, uuid) ==
    LET patterns == LoopPatterns(lp, df_thresh)
        out == RepairAll(lp, patterns, uuid)
    IN <<out, SubSeq(out.activities, Len(lp.activities) + 1, Len(out.activities))>>

\* the skip patterns of the log: for an activity x other than Start and End, the
\* pairs (p, s) of a predecessor and a successor of x that are themselves
\* connected by an edge whose weight exceeds the threshold (x is bypassed)
SkipPatterns(lp, df_thresh) ==
    LET dfg == from_event_log_projection(lp)
        E == DOMAIN dfg
        pat == [x \in DOMAIN lp.activities |->
                  IF lp.activities[x] \in {START_EVENT, END_EVENT} THEN {}
                  ELSE {e \in E : /\ e[1] # x /\ e[2] # x
                                  /\ <<e[1], x>> \in E /\ <<x, e[2]>> \in E
                                  /\ dfg[e] > df_thresh}]
    IN PatternsOf(SortedVec(DOMAIN lp.activities), pat)

\* add_artificial_acts_for_skips: (the repaired projection, the names added)
add_artificial_acts_for_skips(lp, df_thresh, uuid) ==
    LET patterns == SkipPatterns(lp, df_thresh)
        out == RepairAll(lp, patterns, uuid)
    IN <<out, SubSeq(out.activities, Len(lp.activities) + 1, Len(out.activities))>>

\* ------------------------------------------------------------ act_count
\* act_count[act] += w for every occurrence of act in a trace of weight w
ActCount(lp) ==
    [a \in DOMAIN lp.activities |->
       LET f == [k \in DOMAIN lp.traces |->
                   lp.traces[k].w *
                   Cardinality({i \in DOMAIN lp.traces[k].trace :
                                  lp.traces[k].trace[i] = a})]
       IN SumOver(f, DOMAIN lp.traces)]

\* ------------------------------------------------------------ filter_dfg
\* an edge is retained iff its weight is at least the absolute threshold and at
\* least rel (= rel_n / Den) times the stronger of the heaviest edge leaving
\* its source and the heaviest edge entering its target
filter_dfg(dfg, absolute_thresh, rel_n) ==
    LET E == DOMAIN dfg
        outmax(u) == SetMax({dfg[e] : e \in {d \in E : d[1] = u}})
        inmax(v) == SetMax({dfg[e] : e \in {d \in E : d[2] = v}})
        keep == {e \in E : /\ dfg[e] >= absolute_thresh
                           /\ dfg[e] * Den >= rel_n * Max2(outmax(e[1]), inmax(e[2]))}
    IN [e \in keep |-> dfg[e]]

\* ------------------------------------------------------- build_candidates
\* (A, B) is a candidate iff A and B are non-empty and disjoint, every a in A
\* and b in B is an edge of the filtered DFG, and no edge joins two members of
\* A or two members of B; each set is held as its sorted vector
build_candidates(dfg) ==
    LET E == DOMAIN dfg
        srcs == {e[1] : e \in E}
        tgts == {e[2] : e \in E}
        valid(A, B) ==
            /\ A \cap B = {}
            /\ \A a \in A, b \in B : <<a, b>> \in E
            /\ \A a1 \in A, a2 \in A : <<a1, a2>> \notin E
            /\ \A b1 \in B, b2 \in B : <<b1, b2>> \notin E
    IN {<<SortedVec(A), SortedVec(B)>> :
          <<A, B>> \in {ab \in (SUBSET srcs \ {{}}) \X (SUBSET tgts \ {{}}) :
                          valid(ab[1], ab[2])}}

\* ------------------------------------------------------- prune_candidates
\* replay of trace t on the single place (A, B) holding tok tokens: the number
\* of occurrences of a member of B that find a token to consume
RECURSIVE Consumed(_, _, _, _)
Consumed(t, A, B, tok) ==
    IF t = <<>> THEN 0
    ELSE IF Head(t) \in B
         THEN (IF tok > 0 THEN 1 + Consumed(Tail(t), A, B, tok - 1)
                          ELSE Consumed(Tail(t), A, B, 0))
         ELSE IF Head(t) \in A THEN Consumed(Tail(t), A, B, tok + 1)
         ELSE Consumed(Tail(t), A, B, tok)

Occurrences(t, S) == Cardinality({i \in DOMAIN t : t[i] \in S})

\* balance >= thresh, balance = min(count A, count B) / max(count A, count B)
BalanceOk(A, B, act_count, thresh_n) ==
    LET ca == SumOver(act_count, A)
        cb == SumOver(act_count, B)
    IN Min2(ca, cb) * Den >= thresh_n * Max2(ca, cb)

\* fitness >= thresh, fitness = the weighted fraction of the occurrences of B
\* that are preceded by an unconsumed occurrence of A
FitnessOk(A, B, lp, thresh_n) ==
    LET ok == [k \in DOMAIN lp.traces |->
                 lp.traces[k].w * Consumed(lp.traces[k].trace, A, B, 0)]
        all == [k \in DOMAIN lp.traces |->
                  lp.traces[k].w * Occurrences(lp.traces[k].trace, B)]
    IN SumOver(ok, DOMAIN lp.traces) * Den >= thresh_n * SumOver(all, DOMAIN lp.traces)

\* replay >= thresh, replay = the weighted fraction of the traces that replay on
\* the place without a missing token
ReplayOk(A, B, lp, thresh_n) ==
    LET ok == [k \in DOMAIN lp.traces |->
                 IF Consumed(lp.traces[k].trace, A, B, 0)
                      = Occurrences(lp.traces[k].trace, B)
                 THEN lp.traces[k].w ELSE 0]
        all == [k \in DOMAIN lp.traces |-> lp.traces[k].w]
    IN SumOver(ok, DOMAIN lp.traces) * Den >= thresh_n * SumOver(all, DOMAIN lp.traces)

\* the candidates that pass the three thresholds and are contained in no other
\* candidate that passes them
prune_candidates(cnds, balance_thresh, fitness_thresh, replay_thresh, act_count, lp) ==
    LET pass == {c \in cnds :
                   /\ BalanceOk(Range(c[1]), Range(c[2]), act_count, balance_thresh)
                   /\ FitnessOk(Range(c[1]), Range(c[2]), lp, fitness_thresh)
                   /\ ReplayOk(Range(c[1]), Range(c[2]), lp, replay_thresh)}
    IN {c \in pass :
          ~ \E d \in pass : /\ d # c
                            /\ Range(c[1]) \subseteq Range(d[1])
                            /\ Range(c[2]) \subseteq Range(d[2])}

\* ------------------------------------------------------------- PetriNet
\* PetriNet::new()
NewPetriNet ==
    [places |-> {}, transitions |-> <<>>, arcs |-> <<>>,
     initial_marking |-> None, final_markings |-> None]

\* pn.add_transition(label, None) with the fresh id
add_transition(pn, label, id) ==
    [pn EXCEPT !.transitions = (id :> [label |-> label]) @@ pn.transitions]

\* pn.add_place(None) with the fresh id
add_place(pn, id) == [pn EXCEPT !.places = pn.places \cup {id}]

\* ArcType::transition_to_place / ArcType::place_to_transition
transition_to_place(t, p) == [type |-> "t2p", t |-> t, p |-> p]
place_to_transition(p, t) == [type |-> "p2t", t |-> t, p |-> p]

\* pn.add_arc(arc, None)
add_arc(pn, arc) == [pn EXCEPT !.arcs = Append(pn.arcs, arc)]

\* the places a transition produces into / consumes from
postset_of_transition(pn, t) ==
    {pn.arcs[i].p : i \in {j \in DOMAIN pn.arcs :
                             pn.arcs[j].type = "t2p" /\ pn.arcs[j].t = t}}
preset_of_transition(pn, t) ==
    {pn.arcs[i].p : i \in {j \in DOMAIN pn.arcs :
                             pn.arcs[j].type = "p2t" /\ pn.arcs[j].t = t}}

\* MarkingInc that replaces the marking by the one token
MarkingInc_Overwrite(m, p) == (p :> 1)

\* *marking.entry(place_id).or_insert(0) += 1
MarkingInc(m, p) ==
    IF p \in DOMAIN m THEN [m EXCEPT ![p] = @ + 1] ELSE (p :> 1) @@ m

\* --------------------------------------------------------------- inputs
NameUniverse == <<(<<"a">>), (<<"b">>), SILENT_ACT_PREFIX \o <<"x">>,
                  START_EVENT, END_EVENT>>

\* the activity vectors of the input projections: distinct names, at most MaxActs
ActivityVectors ==
    {[i \in DOMAIN v |-> NameUniverse[v[i]]] :
       v \in {SortedVec(S) : S \in {T \in SUBSET DOMAIN NameUniverse :
                                     Cardinality(T) <= MaxActs}}}

\* the sequences of length l over 1..n as a vector in lexicographic order
RECURSIVE LexSeqs(_, _)
LexSeqs(n, l) ==
    IF l = 0 THEN << <<>> >>
    ELSE LET prev == LexSeqs(n, l - 1)
             m == Len(prev)
         IN [k \in 1..(n * m) |->
               <<((k - 1) \div m) + 1>> \o prev[((k - 1) % m) + 1]]

\* the variants over 1..n of length at most l, by length, then lexicographic
RECURSIVE VariantsUpTo(_, _)
VariantsUpTo(n, l) ==
    IF l < 0 THEN <<>> ELSE VariantsUpTo(n, l - 1) \o LexSeqs(n, l)

\* the trace vectors that list some of the variants vs after position i, in the
\* order of vs, each once with a weight >= 1, of size at most budget; the size
\* of a log is the sum over its traces of weight * (length + 1)
RECURSIVE LogsFrom(_, _, _)
LogsFrom(vs, i, budget) ==
    {<<>>} \cup
    UNION {{<<[trace |-> vs[jw[1]], w |-> jw[2]]>> \o r :
              r \in LogsFrom(vs, jw[1], budget - jw[2] * (Len(vs[jw[1]]) + 1))} :
           jw \in {x \in ((i + 1)..Len(vs)) \X (1..budget) :
                     x[2] * (Len(vs[x[1]]) + 1) <= budget}}

\* the trace vectors over n activities: every index in range, every weight
\* >= 1, every variant listed once
TraceVectors(n) ==
    LogsFrom(VariantsUpTo(n, MaxLogSize - 1), 0, MaxLogSize)

Projections ==
    UNION {{[activities |-> acts, traces |-> ts] : ts \in TraceVectors(Len(acts))} :
           acts \in ActivityVectors}

\* an absolute threshold above every weight a bounded log can produce
BigAbs == MaxLogSize + 1

BaseConfig ==
    [balance_thresh |-> 0, fitness_thresh |-> 0, replay_thresh |-> 0,
     log_repair_skip_df_thresh_rel |-> 0, log_repair_loop_df_thresh_rel |-> 0,
     absolute_df_clean_thresh |-> 1, relative_df_clean_thresh |-> 0]

\* AlphaPPPConfig values, thresholds as numerators over Den: in range (0, Den)
\* and out of range (-1, Den + 1)
Configs ==
    {BaseConfig,
     [BaseConfig EXCEPT !.balance_thresh = Den],
     [BaseConfig EXCEPT !.balance_thresh = Den + 1],
     [BaseConfig EXCEPT !.fitness_thresh = -1],
     [BaseConfig EXCEPT !.fitness_thresh = Den + 1],
     [BaseConfig EXCEPT !.replay_thresh = Den + 1],
     [BaseConfig EXCEPT !.relative_df_clean_thresh = Den + 1],
     [BaseConfig EXCEPT !.absolute_df_clean_thresh = BigAbs],
     [BaseConfig EXCEPT !.log_repair_skip_df_thresh_rel = 2 * Den,
                        !.log_repair_loop_df_thresh_rel = 2 * Den]}

\* ---------------------------------------------------------------- XES
\* A String of the log is the sequence of its pieces, so that join, split and
\* the to_string conversions are computed.
\* AttributeValue: one constructor per variant
String(s) == [type |-> "String", s |-> s]
Date(d) == [type |-> "Date", d |-> d]
IntValue(i) == [type |-> "Int", i |-> i]
Float(f) == [type |-> "Float", f |-> f]
Boolean(b) == [type |-> "Boolean", b |-> b]
ID(id) == [type |-> "ID", id |-> id]
List(l) == [type |-> "List", l |-> l]
Container(c) == [type |-> "Container", c |-> c]
NoneValue == [type |-> "None"]
Attribute(key, value, own_attributes) ==
    [key |-> key, value |-> value, own_attributes |-> own_attributes]
EventLogExtension(name, prefix, uri) == [name |-> name, prefix |-> prefix, uri |-> uri]
EventLogClassifier(name, keys) == [name |-> name, keys |-> keys]
Event(attributes) == [attributes |-> attributes]
Trace(attributes, events) == [attributes |-> attributes, events |-> events]
EventLog(attributes, traces, extensions, classifiers, global_trace_attrs, global_event_attrs) ==
    [attributes |-> attributes, traces |-> traces, extensions |-> extensions,
     classifiers |-> classifiers, global_trace_attrs |-> global_trace_attrs,
     global_event_attrs |-> global_event_attrs]

\* an element as the writer emits it: content None is write_empty, content
\* Some(children) is write_inner_content
Element(tag, attrs, content) == [tag |-> tag, attrs |-> attrs, content |-> content]

Digits == <<"0", "1", "2", "3", "4", "5", "6", "7", "8", "9">>

RECURSIVE NatToString(_)
NatToString(n) ==
    IF n < 10 THEN <<Digits[n + 1]>>
    ELSE NatToString(n \div 10) \o <<Digits[(n % 10) + 1]>>

\* i64::to_string
IntToString(i) == IF i < 0 THEN <<"-">> \o NatToString(-i) ELSE NatToString(i)

\* f64::to_string of h / 2 for h >= 0
FloatToString(h) ==
    IF h % 2 = 0 THEN NatToString(h \div 2)
    ELSE NatToString(h \div 2) \o <<".", "5">>

\* bool::to_string
BoolToString(b) == IF b THEN <<"true">> ELSE <<"false">>

\* DateTime::to_rfc3339 of second d < 60 of the first minute of 1970, UTC
to_rfc3339(d) ==
    <<"1970-01-01T00:00:">> \o (IF d < 10 THEN <<"0">> ELSE <<>>)
      \o NatToString(d) \o <<"+00:00">>

\* Uuid::to_string of the uuid of number n < 10
UuidToString(n) == <<"00000000-0000-0000-0000-00000000000">> \o NatToString(n)

\* [String]::join(" ")
RECURSIVE Join(_)
Join(keys) ==
    IF keys = <<>> THEN <<>>
    ELSE IF Len(keys) = 1 THEN keys[1]
    ELSE keys[1] \o <<" ">> \o Join(Tail(keys))

\* lines 123-133: the tag of the element
TagName(value) ==
    CASE value.type = "String" -> "string"
      [] value.type = "Date" -> "date"
      [] value.type = "Int" -> "int"
      [] value.type = "Float" -> "float"
      [] value.type = "Boolean" -> "boolean"
      [] value.type = "ID" -> "id"
      [] value.type = "List" -> "list"
      [] value.type = "Container" -> "container"

\* lines 123-133: value_opt; what a List or a Container holds is not looked at
ValueOpt(value) ==
    CASE value.type = "String" -> Some(value.s)
      [] value.type = "Date" -> Some(to_rfc3339(value.d))
      [] value.type = "Int" -> Some(IntToString(value.i))
      [] value.type = "Float" -> Some(FloatToString(value.f))
      [] value.type = "Boolean" -> Some(BoolToString(value.b))
      [] value.type = "ID" -> Some(UuidToString(value.id))
      [] value.type = "List" -> None
      [] value.type = "Container" -> None

\* line 132: todo!() is reached for a, or for one of its own_attributes
RECURSIVE ReachesTodo(_)
ReachesTodo(a) ==
    \/ a.value.type = "None"
    \/ /\ a.own_attributes.some
       /\ \E i \in DOMAIN a.own_attributes.v : ReachesTodo(a.own_attributes.v[i])

AnyReachesTodo(attributes) == \E i \in DOMAIN attributes : ReachesTodo(attributes[i])

\* lines 119-154, for an attribute that does not reach todo!()
RECURSIVE write_xes_attribute(_)
write_xes_attribute(a) ==
    LET tag_name == TagName(a.value)
        value_opt == ValueOpt(a.value)
        attrs == IF value_opt.some
                 THEN << <<"key", a.key>>, <<"value", value_opt.v>> >>
                 ELSE << <<"key", a.key>> >>
    IN IF a.own_attributes.some
       THEN Element(tag_name, attrs,
                    Some([i \in DOMAIN a.own_attributes.v |->
                            write_xes_attribute(a.own_attributes.v[i])]))
       ELSE Element(tag_name, attrs, None)

WriteAttributes(attributes) ==
    [i \in DOMAIN attributes |-> write_xes_attribute(attributes[i])]

\* lines 49-59
WriteExtensions(log_extensions) ==
    IF log_extensions.some
    THEN [i \in DOMAIN log_extensions.v |->
            Element("extension",
                    << <<"name", log_extensions.v[i].name>>,
                       <<"prefix", log_extensions.v[i].prefix>>,
                       <<"uri", log_extensions.v[i].uri>> >>, None)]
    ELSE <<>>

\* lines 61-70 and 72-81
WriteGlobal(scope, log_global_attrs) ==
    IF log_global_attrs.some
    THEN <<Element("global", << <<"scope", scope>> >>,
                   Some(WriteAttributes(log_global_attrs.v)))>>
    ELSE <<>>

\* lines 83-92
WriteClassifiers(log_classifiers) ==
    IF log_classifiers.some
    THEN [i \in DOMAIN log_classifiers.v |->
            Element("classifier",
                    << <<"name", log_classifiers.v[i].name>>,
                       <<"keys", Join(log_classifiers.v[i].keys)>> >>, None)]
    ELSE <<>>

\* lines 98-111, for a trace none of whose attributes reaches todo!()
WriteTrace(t) ==
    Element("trace", <<>>,
            Some(WriteAttributes(t.attributes)
                 \o [i \in DOMAIN t.events |->
                       Element("event", <<>>,
                               Some(WriteAttributes(t.events[i].attributes)))]))

TraceReachesTodo(t) ==
    \/ AnyReachesTodo(t.attributes)
    \/ \E i \in DOMAIN t.events : AnyReachesTodo(t.events[i].attributes)

\* lines 39-46
LogElementAttributes ==
    << <<"xes.version", <<"2.0">> >>,
       <<"xes.features", <<"nested-attributes">> >>,
       <<"xmlns", <<"http://www.xes-standard.org/">> >> >>

\* ---- the importer: it reads back what the exporter writes
AttrGet(e, name) ==
    LET i == CHOOSE j \in DOMAIN e.attrs : e.attrs[j][1] = name
    IN e.attrs[i][2]

DigitValue(c) == (CHOOSE k \in DOMAIN Digits : Digits[k] = c) - 1

RECURSIVE ParseNat(_)
ParseNat(s) ==
    IF s = <<>> THEN 0
    ELSE 10 * ParseNat(SubSeq(s, 1, Len(s) - 1)) + DigitValue(s[Len(s)])

ParseInt(s) == IF Head(s) = "-" THEN 0 - ParseNat(Tail(s)) ELSE ParseNat(s)

ParseFloat(s) ==
    IF Len(s) > 2 /\ s[Len(s) - 1] = "."
    THEN 2 * ParseNat(SubSeq(s, 1, Len(s) - 2)) + 1
    ELSE 2 * ParseNat(s)

ParseBool(s) == s = <<"true">>
ParseDate(s) == ParseNat(SubSeq(s, 2, Len(s) - 1))
ParseUuid(s) == ParseNat(Tail(s))

\* str::split(' ')
RECURSIVE Split(_, _)
Split(s, cur) ==
    IF s = <<>> THEN <<cur>>
    ELSE IF Head(s) = " " THEN <<cur>> \o Split(Tail(s), <<>>)
    ELSE Split(Tail(s), Append(cur, Head(s)))

ParseKeys(s) == IF s = <<>> THEN <<>> ELSE Split(s, <<>>)

RECURSIVE WithTag(_, _)
WithTag(elements, tags) ==
    IF elements = <<>> THEN <<>>
    ELSE (IF Head(elements).tag \in tags THEN <<Head(elements)>> ELSE <<>>)
           \o WithTag(Tail(elements), tags)

AttributeTags ==
    {"string", "date", "int", "float", "boolean", "id", "list", "container"}

RECURSIVE read_attribute(_)
read_attribute(e) ==
    LET value ==
          CASE e.tag = "string" -> String(AttrGet(e, "value"))
            [] e.tag = "date" -> Date(ParseDate(AttrGet(e, "value")))
            [] e.tag = "int" -> IntValue(ParseInt(AttrGet(e, "value")))
            [] e.tag = "float" -> Float(ParseFloat(AttrGet(e, "value")))
            [] e.tag = "boolean" -> Boolean(ParseBool(AttrGet(e, "value")))
            [] e.tag = "id" -> ID(ParseUuid(AttrGet(e, "value")))
            [] e.tag = "list" -> List(<<>>)
            [] e.tag = "container" -> Container(<<>>)
    IN Attribute(AttrGet(e, "key"), value,
                 IF e.content.some
                 THEN Some([i \in DOMAIN e.content.v |-> read_attribute(e.content.v[i])])
                 ELSE None)

ReadAttributes(elements) ==
    LET es == WithTag(elements, AttributeTags)
    IN [i \in DOMAIN es |-> read_attribute(es[i])]

ReadGlobal(elements, scope) ==
    LET gs == {i \in DOMAIN elements :
                 /\ elements[i].tag = "global"
                 /\ AttrGet(elements[i], "scope") = scope}
    IN IF gs = {} THEN None
       ELSE Some(ReadAttributes(elements[CHOOSE i \in gs : \A j \in gs : i <= j].content.v))

ReadTrace(e) ==
    LET evs == WithTag(e.content.v, {"event"})
    IN Trace(ReadAttributes(e.content.v),
             [i \in DOMAIN evs |-> Event(ReadAttributes(evs[i].content.v))])

import_xes(doc) ==
    LET children == doc.content.v
        exts == WithTag(children, {"extension"})
        cls == WithTag(children, {"classifier"})
        trs == WithTag(children, {"trace"})
    IN EventLog(ReadAttributes(children),
                [i \in DOMAIN trs |-> ReadTrace(trs[i])],
                IF exts = <<>> THEN None
                ELSE Some([i \in DOMAIN exts |->
                             EventLogExtension(AttrGet(exts[i], "name"),
                                               AttrGet(exts[i], "prefix"),
                                               AttrGet(exts[i], "uri"))]),
                IF cls = <<>> THEN None
                ELSE Some([i \in DOMAIN cls |->
                             EventLogClassifier(AttrGet(cls[i], "name"),
                                                ParseKeys(AttrGet(cls[i], "keys")))]),
                ReadGlobal(children, <<"trace">>),
                ReadGlobal(children, <<"event">>))

\* ---- the event logs
LeafValues ==
    {String(<<"s">>), Date(1), IntValue(0 - 12), Float(3), Boolean(TRUE), ID(2), NoneValue}

\* the attributes with at most d levels of attributes below them
RECURSIVE AttributesAt(_)
AttributesAt(d) ==
    LET nested == IF d = 0 THEN {<<>>} ELSE SeqsUpTo(AttributesAt(d - 1), MaxNested)
        values == LeafValues \cup {List(cs) : cs \in nested}
                             \cup {Container(cs) : cs \in nested}
    IN {Attribute(<<"k">>, v, o) : v \in values, o \in {None} \cup {Some(cs) : cs \in nested}}

\* the attributes of traces and events
FlatAttributes ==
    {Attribute(<<"e">>, v, None) :
       v \in {String(<<"s">>), IntValue(7), NoneValue}}

Traces ==
    {Trace(as, es) :
       as \in SeqsUpTo(FlatAttributes, 1),
       es \in SeqsUpTo({Event(ea) : ea \in SeqsUpTo(FlatAttributes, 1)}, 1)}

Extensions ==
    {None, Some(<<>>),
     Some(<<EventLogExtension(<<"Concept">>, <<"concept">>, <<"http://c">>)>>)}

Classifiers ==
    {None, Some(<<>>),
     Some(<<EventLogClassifier(<<"n">>, <<(<<"a">>), (<<"b">>)>>)>>),
     Some(<<EventLogClassifier(<<"n">>, <<(<<"a", " ", "b">>)>>)>>)}

Globals == {None, Some(<<>>), Some(<<Attribute(<<"g">>, IntValue(7), None)>>)}

EmptyLog == EventLog(<<>>, <<>>, None, None, None, None)

EventLogs ==
    {EventLog(<<>>, <<>>, x, c, gt, ge) :
       x \in Extensions, c \in Classifiers, gt \in Globals, ge \in Globals}
    \cup {EventLog(as, <<>>, None, None, None, None) :
            as \in SeqsUpTo(AttributesAt(MaxNested), 1)}
    \cup {EventLog(<<>>, ts, None, None, None, None) :
            ts \in SeqsUpTo(Traces, MaxXesTraces)}

\* ---------------------------------------------------------------- state
VARIABLES
    log_proj_arg,     \* the caller's projection (the argument log_proj)
    config,           \* the AlphaPPPConfig argument
    pc,               \* the position of the call
    run,              \* 1 in the first call, 2 in the repeated call
    uuid,             \* the source of fresh ids and unique suffixes
    log_proj,         \* the local projection (cloned, augmented, repaired)
    dfg,              \* the local dfg
    mean_dfg,         \* [sum, n]: dfg_sum and dfg.edges.len(), mean = sum / n
    start_act, end_act,
    added_loop, added_skip,
    act_count,
    cnds,
    sel,
    pn, initial_marking, final_marking,
    transitions,      \* per activity: the transition id, 0 for None
    todo,             \* sel.iter(): the candidates still to come, in its order
    place_of,         \* the place_id bound in the iteration of each candidate
    pn_first,         \* the net the first call returned
    xes_log,          \* the EventLog given to export_xes_event_log
    xes_pc,           \* the position of the export and of the import after it
    xes_writer,       \* the elements written so far
    xes_next,         \* the trace the loop over the traces comes to next
    log2              \* the EventLog read back from what was written

vars == <<log_proj_arg, config, pc, run, uuid, log_proj, dfg, mean_dfg,
          start_act, end_act, added_loop, added_skip, act_count, cnds, sel,
          pn, initial_marking, final_marking, transitions, todo, place_of,
          pn_first, xes_log, xes_pc, xes_writer, xes_next, log2>>

xes_vars == <<xes_log, xes_pc, xes_writer, xes_next, log2>>

discover_vars == <<log_proj_arg, config, pc, run, uuid, log_proj, dfg, mean_dfg,
                   start_act, end_act, added_loop, added_skip, act_count, cnds,
                   sel, pn, initial_marking, final_marking, transitions, todo,
                   place_of, pn_first>>

\* no export is under way
XesIdle ==
    /\ xes_log = EmptyLog
    /\ xes_pc = "idle"
    /\ xes_writer = <<>>
    /\ xes_next = 0
    /\ log2 = EmptyLog

\* the locals of a call before its first statement
Locals(lp) ==
    /\ log_proj = lp
    /\ dfg = <<>>
    /\ mean_dfg = [sum |-> 0, n |-> 0]
    /\ start_act = 0 /\ end_act = 0
    /\ added_loop = <<>> /\ added_skip = <<>>
    /\ act_count = <<>>
    /\ cnds = {} /\ sel = {}
    /\ pn = NewPetriNet
    /\ initial_marking = <<>> /\ final_marking = <<>>
    /\ transitions = <<>>
    /\ todo = <<>>
    /\ place_of = <<>>

Init ==
    /\ log_proj_arg \in Projections
    /\ config \in Configs
    /\ pc = "start"
    /\ run = 1
    /\ uuid = 1
    /\ pn_first = NewPetriNet
    /\ Locals(log_proj_arg)
    /\ XesIdle

\* ------------------------------------------- alphappp_discover_petri_net
\* lines 76-83: clone, add Start/End, first DFG, mean_dfg, start_act, end_act
AddStartEnd ==
    /\ pc = "start"
    /\ LET lp == add_start_end_acts_proj(log_proj)
           d == from_event_log_projection(lp)
       IN /\ log_proj' = lp
          /\ dfg' = d
          /\ mean_dfg' = [sum |-> SumOver(d, DOMAIN d), n |-> Cardinality(DOMAIN d)]
          /\ start_act' = IndexOf(lp.activities, START_EVENT)
          /\ end_act' = IndexOf(lp.activities, END_EVENT)
    /\ pc' = "loop_repair"
    /\ UNCHANGED <<log_proj_arg, config, run, uuid, added_loop, added_skip,
                   act_count, cnds, sel, pn, initial_marking, final_marking,
                   transitions, todo, place_of, pn_first>>
    /\ UNCHANGED xes_vars

\* lines 87-90
LoopRepair ==
    /\ pc = "loop_repair"
    /\ LET r == add_artificial_acts_for_loops(
                    log_proj,
                    df_threshold(config.log_repair_loop_df_thresh_rel,
                                 mean_dfg.sum, mean_dfg.n),
                    uuid)
       IN /\ log_proj' = r[1]
          /\ added_loop' = r[2]
          /\ uuid' = uuid + Len(r[2])
    /\ pc' = "skip_repair"
    /\ UNCHANGED <<log_proj_arg, config, run, dfg, mean_dfg, start_act, end_act,
                   added_skip, act_count, cnds, sel, pn, initial_marking,
                   final_marking, transitions, todo, place_of, pn_first>>
    /\ UNCHANGED xes_vars

\* lines 99-102
SkipRepair ==
    /\ pc = "skip_repair"
    /\ LET r == add_artificial_acts_for_skips(
                    log_proj,
                    df_threshold(config.log_repair_skip_df_thresh_rel,
                                 mean_dfg.sum, mean_dfg.n),
                    uuid)
       IN /\ log_proj' = r[1]
          /\ added_skip' = r[2]
          /\ uuid' = uuid + Len(r[2])
    /\ pc' = "filter_dfg"
    /\ UNCHANGED <<log_proj_arg, config, run, dfg, mean_dfg, start_act, end_act,
                   added_loop, act_count, cnds, sel, pn, initial_marking,
                   final_marking, transitions, todo, place_of, pn_first>>
    /\ UNCHANGED xes_vars

\* FilterDfg that keeps the unfiltered DFG
FilterDfg_Unfiltered ==
    /\ pc = "filter_dfg"
    /\ act_count' = ActCount(log_proj)
    /\ dfg' = from_event_log_projection(log_proj)
    /\ pc' = "build_candidates"
    /\ UNCHANGED <<log_proj_arg, config, run, uuid, log_proj, mean_dfg, start_act,
                   end_act, added_loop, added_skip, cnds, sel, pn, initial_marking,
                   final_marking, transitions, todo, place_of, pn_first>>
    /\ UNCHANGED xes_vars

\* lines 143-158: act_count, the DFG of the repaired projection, filtered
FilterDfg ==
    /\ pc = "filter_dfg"
    /\ act_count' = ActCount(log_proj)
    /\ dfg' = filter_dfg(from_event_log_projection(log_proj),
                         config.absolute_df_clean_thresh,
                         config.relative_df_clean_thresh)
    /\ pc' = "build_candidates"
    /\ UNCHANGED <<log_proj_arg, config, run, uuid, log_proj, mean_dfg, start_act,
                   end_act, added_loop, added_skip, cnds, sel, pn, initial_marking,
                   final_marking, transitions, todo, place_of, pn_first>>
    /\ UNCHANGED xes_vars

\* line 167
BuildCandidates ==
    /\ pc = "build_candidates"
    /\ cnds' = build_candidates(dfg)
    /\ pc' = "prune_candidates"
    /\ UNCHANGED <<log_proj_arg, config, run, uuid, log_proj, dfg, mean_dfg,
                   start_act, end_act, added_loop, added_skip, act_count, sel, pn,
                   initial_marking, final_marking, transitions, todo, place_of,
                   pn_first>>
    /\ UNCHANGED xes_vars

\* PruneThresholds with every threshold clamped into [0, 1]
PruneThresholds_Clamped(cfg) ==
    <<Max2(0, Min2(Den, cfg.balance_thresh)),
      Max2(0, Min2(Den, cfg.fitness_thresh)),
      Max2(0, Min2(Den, cfg.replay_thresh))>>

\* lines 173-180: the thresholds are handed to prune_candidates as given
PruneThresholds(cfg) ==
    <<cfg.balance_thresh, cfg.fitness_thresh, cfg.replay_thresh>>

PruneCandidates ==
    /\ pc = "prune_candidates"
    /\ LET th == PruneThresholds(config)
       IN sel' = prune_candidates(cnds, th[1], th[2], th[3], act_count, log_proj)
    /\ pc' = "create_transitions"
    /\ UNCHANGED <<log_proj_arg, config, run, uuid, log_proj, dfg, mean_dfg,
                   start_act, end_act, added_loop, added_skip, act_count, cnds, pn,
                   initial_marking, final_marking, transitions, todo, place_of,
                   pn_first>>
    /\ UNCHANGED xes_vars

\* TransitionFor with "or" between the two name tests
TransitionFor_OrNames(act_name) ==
    IF act_name # START_EVENT \/ act_name # END_EVENT
    THEN Some(IF starts_with(act_name, SILENT_ACT_PREFIX) THEN None
              ELSE Some(act_name))
    ELSE None

\* lines 199-210: the closure's decision for one activity name.  None: no
\* transition (Start, End); Some(None): a silent transition; Some(Some(name)):
\* a transition labeled name
TransitionFor(act_name) ==
    IF act_name # START_EVENT /\ act_name # END_EVENT
    THEN Some(IF starts_with(act_name, SILENT_ACT_PREFIX) THEN None
              ELSE Some(act_name))
    ELSE None

\* lines 195-212: map over the activities from position i on, ids from id on;
\* [pn, transitions]
RECURSIVE MapActivities(_, _, _, _, _)
MapActivities(net, acts, i, id, acc) ==
    IF i > Len(acts) THEN [pn |-> net, transitions |-> acc]
    ELSE LET t == TransitionFor(acts[i])
         IN IF t.some
            THEN MapActivities(add_transition(net, t.v, id), acts, i + 1, id + 1,
                               Append(acc, id))
            ELSE MapActivities(net, acts, i + 1, id, Append(acc, 0))

\* the order in which sel.iter() yields the selected candidates: it is not
\* sorted by the code and depends on the hash seed of the run
IterOrder(seed, S) == Permuted(seed, SortedCnds(S))

\* lines 192-213: the net, its transitions, and the iterator over sel
CreateTransitions ==
    /\ pc = "create_transitions"
    /\ LET r == MapActivities(NewPetriNet, log_proj.activities, 1, uuid, <<>>)
       IN /\ pn' = r.pn
          /\ transitions' = r.transitions
          /\ uuid' = uuid + Cardinality(DOMAIN r.pn.transitions)
    /\ initial_marking' = <<>>
    /\ final_marking' = <<>>
    /\ \E seed \in 0..(HashSeeds - 1) : todo' = IterOrder(seed, sel)
    /\ pc' = "add_places"
    /\ UNCHANGED <<log_proj_arg, config, run, log_proj, dfg, mean_dfg, start_act,
                   end_act, added_loop, added_skip, act_count, cnds, sel, place_of,
                   pn_first>>
    /\ UNCHANGED xes_vars

\* WireIn with the Start token put into final_marking
WireIn_MarksFinal(st, in_act, place_id) ==
    IF st.panicked THEN st
    ELSE IF in_act = start_act
         THEN [st EXCEPT !.final_marking = MarkingInc(st.final_marking, place_id)]
         ELSE IF transitions[in_act] = 0
              THEN [st EXCEPT !.panicked = TRUE]
              ELSE [st EXCEPT !.pn = add_arc(st.pn,
                        transition_to_place(transitions[in_act], place_id))]

\* lines 215-224, one in_act of a.  st = [pn, initial_marking, final_marking,
\* panicked]; unwrap of a None transition panics
WireIn(st, in_act, place_id) ==
    IF st.panicked THEN st
    ELSE IF in_act = start_act
         THEN [st EXCEPT !.initial_marking = MarkingInc(st.initial_marking, place_id)]
         ELSE IF transitions[in_act] = 0
              THEN [st EXCEPT !.panicked = TRUE]
              ELSE [st EXCEPT !.pn = add_arc(st.pn,
                        transition_to_place(transitions[in_act], place_id))]

\* WireOut with the arc built in the direction of WireIn
WireOut_ArcReversed(st, out_act, place_id) ==
    IF st.panicked THEN st
    ELSE IF out_act = end_act
         THEN [st EXCEPT !.final_marking = MarkingInc(st.final_marking, place_id)]
         ELSE IF transitions[out_act] = 0
              THEN [st EXCEPT !.panicked = TRUE]
              ELSE [st EXCEPT !.pn = add_arc(st.pn,
                        transition_to_place(transitions[out_act], place_id))]

\* lines 225-234, one out_act of b
WireOut(st, out_act, place_id) ==
    IF st.panicked THEN st
    ELSE IF out_act = end_act
         THEN [st EXCEPT !.final_marking = MarkingInc(st.final_marking, place_id)]
         ELSE IF transitions[out_act] = 0
              THEN [st EXCEPT !.panicked = TRUE]
              ELSE [st EXCEPT !.pn = add_arc(st.pn,
                        place_to_transition(place_id, transitions[out_act]))]

RECURSIVE ForEachIn(_, _, _)
ForEachIn(st, a, place_id) ==
    IF a = <<>> THEN st
    ELSE ForEachIn(WireIn(st, Head(a), place_id), Tail(a), place_id)

RECURSIVE ForEachOut(_, _, _)
ForEachOut(st, b, place_id) ==
    IF b = <<>> THEN st
    ELSE ForEachOut(WireOut(st, Head(b), place_id), Tail(b), place_id)

\* lines 213-235, one iteration of sel.iter().for_each: the next candidate the
\* iterator yields gets a fresh place
AddPlace ==
    /\ pc = "add_places"
    /\ todo # <<>>
    /\ LET c == Head(todo)
       IN
         LET place_id == uuid
             st0 == [pn |-> add_place(pn, place_id),
                     initial_marking |-> initial_marking,
                     final_marking |-> final_marking,
                     panicked |-> FALSE]
             st == ForEachOut(ForEachIn(st0, c[1], place_id), c[2], place_id)
         IN /\ pn' = st.pn
            /\ initial_marking' = st.initial_marking
            /\ final_marking' = st.final_marking
            /\ place_of' = (c :> place_id) @@ place_of
            /\ todo' = Tail(todo)
            /\ pc' = IF st.panicked THEN "panicked" ELSE "add_places"
    /\ uuid' = uuid + 1
    /\ UNCHANGED <<log_proj_arg, config, run, log_proj, dfg, mean_dfg, start_act,
                   end_act, added_loop, added_skip, act_count, cnds, sel,
                   transitions, pn_first>>
    /\ UNCHANGED xes_vars

\* IsOrphanSilent with the preset test negated
IsOrphanSilent_NegatedPreset(net, id) ==
    /\ net.transitions[id].label = None
    /\ postset_of_transition(net, id) = {}
    /\ preset_of_transition(net, id) # {}

\* IsOrphanSilent with "or" between the two emptiness tests
IsOrphanSilent_EitherEmpty(net, id) ==
    /\ net.transitions[id].label = None
    /\ \/ postset_of_transition(net, id) = {}
       \/ preset_of_transition(net, id) = {}

\* IsOrphanSilent without the test of the label
IsOrphanSilent_AnyLabel(net, id) ==
    /\ postset_of_transition(net, id) = {}
    /\ preset_of_transition(net, id) = {}

\* lines 239-241: the condition under which the sweep removes transition id
IsOrphanSilent(net, id) ==
    /\ net.transitions[id].label = None
    /\ postset_of_transition(net, id) = {}
    /\ preset_of_transition(net, id) = {}

\* lines 237-245: the sweep over a copy of the transitions (removing a
\* transition changes no arc, so the order of the sweep does not matter)
Sweep ==
    /\ pc = "add_places"
    /\ todo = <<>>
    /\ LET keep == {id \in DOMAIN pn.transitions : ~ IsOrphanSilent(pn, id)}
       IN pn' = [pn EXCEPT !.transitions = [id \in keep |-> pn.transitions[id]]]
    /\ pc' = "set_markings"
    /\ UNCHANGED <<log_proj_arg, config, run, uuid, log_proj, dfg, mean_dfg,
                   start_act, end_act, added_loop, added_skip, act_count, cnds, sel,
                   initial_marking, final_marking, transitions, todo, place_of,
                   pn_first>>
    /\ UNCHANGED xes_vars

\* lines 247-257: the markings are attached and the net is returned
Return ==
    /\ pc = "set_markings"
    /\ pn' = [pn EXCEPT !.initial_marking = Some(initial_marking),
                        !.final_markings = Some(<<final_marking>>)]
    /\ pc' = "done"
    /\ UNCHANGED <<log_proj_arg, config, run, uuid, log_proj, dfg, mean_dfg,
                   start_act, end_act, added_loop, added_skip, act_count, cnds, sel,
                   initial_marking, final_marking, transitions, todo, place_of,
                   pn_first>>
    /\ UNCHANGED xes_vars

\* the caller keeps the returned net and calls again with the same projection
\* and the same config; ids and suffixes already used are not used again
Rerun ==
    /\ pc = "done"
    /\ run = 1
    /\ pn_first' = pn
    /\ run' = 2
    /\ pc' = "start"
    /\ log_proj' = log_proj_arg
    /\ dfg' = <<>>
    /\ mean_dfg' = [sum |-> 0, n |-> 0]
    /\ start_act' = 0 /\ end_act' = 0
    /\ added_loop' = <<>> /\ added_skip' = <<>>
    /\ act_count' = <<>>
    /\ cnds' = {} /\ sel' = {}
    /\ pn' = NewPetriNet
    /\ initial_marking' = <<>> /\ final_marking' = <<>>
    /\ transitions' = <<>>
    /\ todo' = <<>>
    /\ place_of' = <<>>
    /\ UNCHANGED <<log_proj_arg, config, uuid>>
    /\ UNCHANGED xes_vars

Next ==
    \/ AddStartEnd
    \/ LoopRepair
    \/ SkipRepair
    \/ FilterDfg
    \/ BuildCandidates
    \/ PruneCandidates
    \/ CreateTransitions
    \/ AddPlace
    \/ Sweep
    \/ Return

\* one call of alphappp_discover_petri_net
Spec == Init /\ [][Next]_vars

NextTwice ==
    \/ Next
    \/ Rerun

\* the call, and the same call once more
SpecTwice == Init /\ [][NextTwice]_vars

\* --------------------------------------------------- export_xes_event_log
\* no discovery is under way
DiscoverIdle ==
    /\ log_proj_arg = [activities |-> <<>>, traces |-> <<>>]
    /\ config = BaseConfig
    /\ pc = "idle"
    /\ run = 1
    /\ uuid = 1
    /\ pn_first = NewPetriNet
    /\ Locals(log_proj_arg)

XesInit ==
    /\ xes_log \in EventLogs
    /\ xes_pc = "start"
    /\ xes_writer = <<>>
    /\ xes_next = 1
    /\ log2 = EmptyLog
    /\ DiscoverIdle

\* lines 32-96: the declaration, the log element, the extensions, the globals,
\* the classifiers and the log attributes
ExportHeader ==
    /\ xes_pc = "start"
    /\ IF \/ xes_log.global_trace_attrs.some /\ AnyReachesTodo(xes_log.global_trace_attrs.v)
          \/ xes_log.global_event_attrs.some /\ AnyReachesTodo(xes_log.global_event_attrs.v)
          \/ AnyReachesTodo(xes_log.attributes)
       THEN /\ xes_pc' = "panicked"
            /\ UNCHANGED xes_writer
       ELSE /\ xes_pc' = "traces"
            /\ xes_writer' = WriteExtensions(xes_log.extensions)
                               \o WriteGlobal(<<"trace">>, xes_log.global_trace_attrs)
                               \o WriteGlobal(<<"event">>, xes_log.global_event_attrs)
                               \o WriteClassifiers(xes_log.classifiers)
                               \o WriteAttributes(xes_log.attributes)
    /\ UNCHANGED <<xes_log, xes_next, log2>>
    /\ UNCHANGED discover_vars

\* lines 97-112: one trace
ExportTrace ==
    /\ xes_pc = "traces"
    /\ xes_next <= Len(xes_log.traces)
    /\ IF TraceReachesTodo(xes_log.traces[xes_next])
       THEN /\ xes_pc' = "panicked"
            /\ UNCHANGED xes_writer
       ELSE /\ xes_pc' = "traces"
            /\ xes_writer' = Append(xes_writer, WriteTrace(xes_log.traces[xes_next]))
    /\ xes_next' = xes_next + 1
    /\ UNCHANGED <<xes_log, log2>>
    /\ UNCHANGED discover_vars

\* lines 113-116: the log element is closed
ExportEnd ==
    /\ xes_pc = "traces"
    /\ xes_next > Len(xes_log.traces)
    /\ xes_writer' = <<Element("log", LogElementAttributes, Some(xes_writer))>>
    /\ xes_pc' = "exported"
    /\ UNCHANGED <<xes_log, xes_next, log2>>
    /\ UNCHANGED discover_vars

\* lines 283-287: what was written is imported
ImportXes ==
    /\ xes_pc = "exported"
    /\ log2' = import_xes(xes_writer[1])
    /\ xes_pc' = "imported"
    /\ UNCHANGED <<xes_log, xes_writer, xes_next>>
    /\ UNCHANGED discover_vars

XesNext ==
    \/ ExportHeader
    \/ ExportTrace
    \/ ExportEnd
    \/ ImportXes

\* an export and the import of what it wrote
SpecXes == XesInit /\ [][XesNext]_vars

\* ================================================================ claims
Returned == pc = "done"

TransitionIds(net) == DOMAIN net.transitions
IsSilentT(net, id) == net.transitions[id].label = None
IsSilentAct(i) == starts_with(log_proj.activities[i], SILENT_ACT_PREFIX)

\* the positions of the arcs of net at transition id / at place p
ArcsOfTransition(net, id) == {j \in DOMAIN net.arcs : net.arcs[j].t = id}
ArcsOfPlace(net, p) == {j \in DOMAIN net.arcs : net.arcs[j].p = p}

\* the selected candidates with Start in A / End in B
StartCnds == {c \in sel : start_act \in Range(c[1])}
EndCnds == {c \in sel : end_act \in Range(c[2])}

\* C1: the returned net has no silent transition whose preset and postset are
\* both empty.
C1_NoOrphanSilent ==
    Returned =>
      \A id \in TransitionIds(pn) :
        ~ (/\ IsSilentT(pn, id)
           /\ preset_of_transition(pn, id) = {}
           /\ postset_of_transition(pn, id) = {})

\* C1 witness: a net is returned from which the sweep removed the transition
\* of a silent activity and in which another silent transition remains.
C1_Witness ==
    /\ Returned
    /\ \E i \in DOMAIN transitions :
         transitions[i] # 0 /\ transitions[i] \notin TransitionIds(pn)
    /\ \E id \in TransitionIds(pn) : IsSilentT(pn, id)

\* C2: in the returned net the marked places of initial_marking are exactly
\* the places of the selected candidates with Start in A, as many as those
\* candidates, each with one token; the single final marking likewise for the
\* candidates with End in B; no other place is marked.
C2_Markings ==
    Returned =>
      /\ pn.initial_marking.some
      /\ pn.final_markings.some
      /\ Len(pn.final_markings.v) = 1
      /\ LET im == pn.initial_marking.v
             fm == pn.final_markings.v[1]
         IN /\ DOMAIN im = {place_of[c] : c \in StartCnds}
            /\ Cardinality(DOMAIN im) = Cardinality(StartCnds)
            /\ \A q \in DOMAIN im : im[q] = 1
            /\ DOMAIN fm = {place_of[c] : c \in EndCnds}
            /\ Cardinality(DOMAIN fm) = Cardinality(EndCnds)
            /\ \A q \in DOMAIN fm : fm[q] = 1
            /\ DOMAIN im \cup DOMAIN fm \subseteq pn.places

\* C2 witness: a returned net with two initially marked places, a finally
\* marked place and a place that is not marked at all.
C2_Witness ==
    /\ Returned
    /\ Cardinality(DOMAIN pn.initial_marking.v) >= 2
    /\ DOMAIN pn.final_markings.v[1] # {}
    /\ pn.places \ (DOMAIN pn.initial_marking.v \cup DOMAIN pn.final_markings.v[1]) # {}

\* C3: every label of the returned net is the name of exactly one activity of
\* the repaired projection, an activity that is neither Start nor End nor
\* silent; Start and End have no transition; no two transitions share a label.
C3_Labels ==
    Returned =>
      /\ \A id \in TransitionIds(pn) :
           pn.transitions[id].label.some =>
             LET name == pn.transitions[id].label.v
             IN /\ Cardinality({i \in DOMAIN log_proj.activities :
                                  log_proj.activities[i] = name}) = 1
                /\ name # START_EVENT
                /\ name # END_EVENT
                /\ ~ starts_with(name, SILENT_ACT_PREFIX)
                /\ transitions[IndexOf(log_proj.activities, name)] = id
      /\ \A i \in DOMAIN log_proj.activities :
           log_proj.activities[i] \in {START_EVENT, END_EVENT} => transitions[i] = 0
      /\ \A id1 \in TransitionIds(pn), id2 \in TransitionIds(pn) :
           (id1 # id2 /\ pn.transitions[id1].label.some)
             => pn.transitions[id1].label # pn.transitions[id2].label

\* C3 witness: a returned net with two labeled transitions and a silent one,
\* from a projection that has a silent activity.
C3_Witness ==
    /\ Returned
    /\ Cardinality({id \in TransitionIds(pn) : pn.transitions[id].label.some}) >= 2
    /\ \E id \in TransitionIds(pn) : IsSilentT(pn, id)
    /\ start_act # 0 /\ end_act # 0

\* the arcs the place of candidate c must have
ExpectedArcs(c) ==
    {transition_to_place(transitions[a], place_of[c]) :
       a \in Range(c[1]) \ {start_act}}
    \cup {place_to_transition(place_of[c], transitions[b]) :
            b \in Range(c[2]) \ {end_act}}

\* C9: the returned net has one fresh place per selected candidate and no
\* other place; the arcs at the place of (A, B) are one arc transition(a) -> p
\* per a in A other than Start and one arc p -> transition(b) per b in B other
\* than End, and nothing else; no arc touches Start or End.
C9_PlacesAndArcs ==
    Returned =>
      /\ DOMAIN place_of = sel
      /\ \A c \in sel, d \in sel : place_of[c] = place_of[d] => c = d
      /\ pn.places = {place_of[c] : c \in sel}
      /\ Cardinality(pn.places) = Cardinality(sel)
      /\ pn.places \cap Range(transitions) = {}
      /\ \A c \in sel :
           /\ {pn.arcs[j] : j \in ArcsOfPlace(pn, place_of[c])} = ExpectedArcs(c)
           /\ Cardinality(ArcsOfPlace(pn, place_of[c])) = Cardinality(ExpectedArcs(c))
      /\ \A j \in DOMAIN pn.arcs :
           /\ pn.arcs[j].p \in pn.places
           /\ pn.arcs[j].t \in TransitionIds(pn)
           /\ \E i \in DOMAIN transitions :
                /\ transitions[i] = pn.arcs[j].t
                /\ i # start_act /\ i # end_act

\* C9 witness: a returned net with three places, one of them with two
\* incoming arcs, one of them with an outgoing arc and a Start token.
C9_Witness ==
    /\ Returned
    /\ Cardinality(pn.places) >= 3
    /\ \E q \in pn.places :
         Cardinality({j \in ArcsOfPlace(pn, q) : pn.arcs[j].type = "t2p"}) >= 2
    /\ \E q \in DOMAIN pn.initial_marking.v :
         \E j \in ArcsOfPlace(pn, q) : pn.arcs[j].type = "p2t"

\* the activities that occur in a selected candidate
SelectedActs == UNION {Range(c[1]) \cup Range(c[2]) : c \in sel}

\* C10: the sweep runs when every selected candidate has its place and arcs;
\* it leaves places and arcs as they are, removes only silent transitions
\* without arcs and changes no transition it keeps, so the transition of a
\* silent activity that occurs in a selected candidate stays in the net.
C10_SweepLast ==
    [][(pc = "add_places" /\ pc' = "set_markings") =>
         /\ DOMAIN place_of = sel
         /\ \A c \in sel : {pn.arcs[j] : j \in ArcsOfPlace(pn, place_of[c])}
                              = ExpectedArcs(c)
         /\ pn'.places = pn.places
         /\ pn'.arcs = pn.arcs
         /\ TransitionIds(pn') \subseteq TransitionIds(pn)
         /\ \A id \in TransitionIds(pn') : pn'.transitions[id] = pn.transitions[id]
         /\ \A id \in TransitionIds(pn) \ TransitionIds(pn') :
              IsSilentT(pn, id) /\ ArcsOfTransition(pn, id) = {}
         /\ \A i \in SelectedActs :
              (IsSilentAct(i) /\ transitions[i] # 0)
                => transitions[i] \in TransitionIds(pn')]_vars

\* C10 witness: the sweep has removed a transition, and a silent transition
\* stays whose activity occurs only in the candidate that was placed last, after
\* another candidate.
C10_Witness ==
    /\ pc = "set_markings"
    /\ \E i \in DOMAIN transitions :
         transitions[i] # 0 /\ transitions[i] \notin TransitionIds(pn)
    /\ Cardinality(sel) >= 2
    /\ \E c \in sel :
         /\ \A d \in sel : place_of[d] <= place_of[c]
         /\ \E i \in Range(c[1]) \cup Range(c[2]) :
              /\ IsSilentAct(i)
              /\ transitions[i] \in TransitionIds(pn)
              /\ \A d \in sel \ {c} : i \notin Range(d[1]) \cup Range(d[2])

\* the positions of the call from which the named local has its final value
AfterFilter == {"build_candidates", "prune_candidates", "create_transitions",
                "add_places", "set_markings", "done", "panicked"}
AfterBuild == AfterFilter \ {"build_candidates"}
AfterPrune == AfterBuild \ {"prune_candidates"}

\* a returned net without places, arcs and tokens
NoPlaces(net) ==
    /\ net.places = {}
    /\ net.arcs = <<>>
    /\ net.initial_marking.some /\ DOMAIN net.initial_marking.v = {}
    /\ net.final_markings.some
    /\ \A k \in DOMAIN net.final_markings.v : DOMAIN net.final_markings.v[k] = {}

ZeroTraces == log_proj_arg.traces = <<>>
ZeroEdges == pc # "start" /\ mean_dfg.n = 0

\* the names of the input activities that get a labeled transition
LabeledNames(acts) ==
    {acts[i] : i \in {j \in DOMAIN acts :
                        /\ acts[j] \notin {START_EVENT, END_EVENT}
                        /\ ~ starts_with(acts[j], SILENT_ACT_PREFIX)}}

BelowZero(cfg) ==
    \/ cfg.balance_thresh < 0 \/ cfg.fitness_thresh < 0
    \/ cfg.replay_thresh < 0 \/ cfg.relative_df_clean_thresh < 0
AboveOne(cfg) ==
    \/ cfg.balance_thresh > Den \/ cfg.fitness_thresh > Den
    \/ cfg.replay_thresh > Den \/ cfg.relative_df_clean_thresh > Den
OutOfRange(cfg) == BelowZero(cfg) \/ AboveOne(cfg)

FilteredToEmpty ==
    /\ pc \in AfterFilter
    /\ ~ ZeroTraces
    /\ DOMAIN filter_dfg(from_event_log_projection(log_proj),
                         config.absolute_df_clean_thresh,
                         config.relative_df_clean_thresh) = {}

\* C6: when the filter removes every edge of the DFG of a non-empty log, the
\* call does not panic and goes on until it returns; no candidate is built or
\* selected, and the net returned has no place, arc or token.
C6_EmptyFilteredDfg ==
    FilteredToEmpty =>
      /\ pc # "panicked"
      /\ pc \in AfterBuild => cnds = {}
      /\ pc \in AfterPrune => sel = {}
      /\ Returned => NoPlaces(pn)
      /\ ~ Returned => ENABLED Next

\* C6 witness: a net with a transition is returned for a non-empty log whose
\* DFG had edges before the filter and none after it.
C6_Witness ==
    /\ Returned
    /\ FilteredToEmpty
    /\ DOMAIN from_event_log_projection(log_proj) # {}
    /\ TransitionIds(pn) # {}

\* ------------------------------------------- equality of nets up to renaming
Tokens(m, q) == IF q \in DOMAIN m THEN m[q] ELSE 0

ArcCount(net, type, t, q) ==
    Cardinality({j \in DOMAIN net.arcs :
                   net.arcs[j] = [type |-> type, t |-> t, p |-> q]})

\* the injections of the transitions S of n1 into the transitions T of n2 that
\* keep the label
RECURSIVE LabelInjections(_, _, _, _)
LabelInjections(S, T, n1, n2) ==
    IF S = {} THEN {<<>>}
    ELSE LET x == CHOOSE y \in S : TRUE
         IN UNION {{(x :> u) @@ h : h \in LabelInjections(S \ {x}, T \ {u}, n1, n2)} :
                   u \in {v \in T : n2.transitions[v].label = n1.transitions[x].label}}

\* what a place q of net is, told in terms of the transitions S through g:
\* its incoming and outgoing arcs and its tokens
PlaceSignature(net, q, S, g) ==
    [in |-> [t \in S |-> ArcCount(net, "t2p", g[t], q)],
     out |-> [t \in S |-> ArcCount(net, "p2t", g[t], q)],
     initial |-> Tokens(net.initial_marking.v, q),
     final |-> [k \in DOMAIN net.final_markings.v |-> Tokens(net.final_markings.v[k], q)]]

\* n1 and n2 are equal up to a renaming of place ids and transition ids
Isomorphic(n1, n2) ==
    LET T1 == TransitionIds(n1)
        T2 == TransitionIds(n2)
        id1 == [t \in T1 |-> t]
    IN /\ Cardinality(T1) = Cardinality(T2)
       /\ Cardinality(n1.places) = Cardinality(n2.places)
       /\ Len(n1.arcs) = Len(n2.arcs)
       /\ n1.initial_marking.some = n2.initial_marking.some
       /\ n1.final_markings.some = n2.final_markings.some
       /\ Len(n1.final_markings.v) = Len(n2.final_markings.v)
       /\ \E g \in LabelInjections(T1, T2, n1, n2) :
            \A q \in n1.places :
              LET sig == PlaceSignature(n1, q, T1, id1)
              IN Cardinality({r \in n1.places : PlaceSignature(n1, r, T1, id1) = sig})
                 = Cardinality({r \in n2.places : PlaceSignature(n2, r, T1, g) = sig})

\* C8: the net a second call returns for the same projection and config equals
\* the net of the first call up to the renaming of place and transition ids,
\* whatever the iteration orders and the unique suffixes of the two calls.
C8_Deterministic == (Returned /\ run = 2) => Isomorphic(pn_first, pn)

MinPlace(net) == CHOOSE q \in net.places : \A r \in net.places : q <= r

\* C8 witness: the second call has returned; the two calls placed the
\* candidates in different orders (the first place of one call holds a Start
\* token, the first place of the other none) and the net has a silent
\* transition of a repair.
C8_Witness ==
    /\ Returned /\ run = 2
    /\ Cardinality(pn.places) >= 2
    /\ MinPlace(pn_first) \in DOMAIN pn_first.initial_marking.v
    /\ MinPlace(pn) \notin DOMAIN pn.initial_marking.v
    /\ added_loop \o added_skip # <<>>
    /\ \E id \in TransitionIds(pn) : IsSilentT(pn, id)

\* C7: an export followed by the import of what was written gives back the
\* event log: the export does not panic, and the log read back equals the
\* original in its traces, events, attributes, extensions and classifiers, in
\* every attribute's value and in its nested attributes.
C7_RoundTrip ==
    /\ xes_pc # "panicked"
    /\ xes_pc = "imported" => log2 = xes_log

\* the positions of the call at which transitions holds its final value
AfterTransitions == {"add_places", "set_markings", "done", "panicked"}

\* C11: the wiring never unwraps a missing transition: in every selected
\* candidate (A, B), on every input projection, end_act is not in A and
\* start_act is not in B, every other index of A and B has a transition, and
\* so the call does not panic.
C11_NoMissingTransition ==
    /\ pc # "panicked"
    /\ pc \in AfterPrune =>
         \A c \in sel :
           /\ end_act \notin Range(c[1])
           /\ start_act \notin Range(c[2])
           /\ pc \in AfterTransitions =>
                \A i \in (Range(c[1]) \cup Range(c[2])) \ {start_act, end_act} :
                  transitions[i] # 0

=============================================================================
